---- MODULE Spec2Model ----
(***************************************************************************)
(* A model of muzero/training/training.py: the training loop              *)
(* (train_network), one weight update (update_weights and its inner loss  *)
(* closure) and the categorical value codec (loss_value).                 *)
(*                                                                         *)
(* Numbers.  Tensors hold IEEE floating point values.  A value is modelled *)
(* as a record: k = "fin" with the exact rational (n / d) * 10^e, or one   *)
(* of the specials k = "nan", "pinf", "ninf".  Arithmetic on finite values *)
(* is exact (rounding is not modelled); arithmetic on the specials follows *)
(* IEEE 754 (inf - inf = nan, 0 * inf = nan, comparisons with nan false).  *)
(***************************************************************************)
EXTENDS Integers, Sequences, FiniteSets, TLC

VARIABLES
    \* ---- train_network ----
    pc,               \* position in train_network
    epochs,           \* the epochs argument
    iter,             \* completed iterations of the for loop
    steps0,           \* network.training_steps when train_network was called
    training_steps,   \* network.training_steps
    optimizer_steps,  \* gradient steps the optimizer has applied
    log,              \* collaborator calls completed so far, in order
    \* ---- update_weights / loss ----
    lpc,              \* position in update_weights
    K,                \* len(actions_time_batch) of the batch
    k,                \* recurrent steps done
    loss,             \* the local `loss`
    losses,           \* the local `losses` (the trace)
    raw_loss,         \* `loss` as it was before the threshold line
    rep,              \* sample ids of the rows of representation_batch
    hist,             \* what the closure has done, per step (for the properties)
    warned,           \* "WARNING: VANISHED GRADIENT" was printed
    printed,          \* the trace printed with the warning
    fault,            \* why update_weights stopped without returning, or "none"
    \* ---- loss_value on one row ----
    cpc, target_value, value_support_size, targets

vars == <<pc, epochs, iter, steps0, training_steps, optimizer_steps, log,
          lpc, K, k, loss, losses, raw_loss, rep, hist, warned, printed,
          fault, cpc, target_value, value_support_size, targets>>

trainVars == <<pc, epochs, iter, steps0, log>>
lossVars  == <<lpc, K, k, loss, losses, raw_loss, rep, hist, warned, printed, fault>>
codecVars == <<cpc, target_value, value_support_size, targets>>

----------------------------------------------------------------------------
(* Bounds of the model. *)

MaxEpochs == 3        \* epochs ranges over 0..MaxEpochs
MaxInitSteps == 2     \* training_steps at entry ranges over 0..MaxInitSteps
MaxMantissa == 4      \* raw losses (n/d)*10^e with |n| <= MaxMantissa
MaxDen == 3           \* value targets are squares of multiples of 1/d, d <= MaxDen
MaxRoot == 4          \* ... with square root at most MaxRoot
MaxSupport == 5       \* value_support_size ranges over 2..MaxSupport
BatchSize == 2        \* samples in the batch of an unrolled loss
MaxUnroll == 2        \* the batch has 0..MaxUnroll unroll steps
SupportSize == 3      \* network.value_support_size in an unrolled loss

----------------------------------------------------------------------------
(* Extended-real arithmetic. *)

Abs(x) == IF x < 0 THEN -x ELSE x

Sgn(x) == IF x < 0 THEN -1 ELSE IF x = 0 THEN 0 ELSE 1

Min2(a, b) == IF a < b THEN a ELSE b

Max2(a, b) == IF a < b THEN b ELSE a

RECURSIVE GCD(_, _)
GCD(a, b) == IF b = 0 THEN a ELSE GCD(b, a % b)

RECURSIVE Pow10(_)
Pow10(m) == IF m = 0 THEN 1 ELSE 10 * Pow10(m - 1)

NaN  == [k |-> "nan",  n |-> 0, d |-> 1, e |-> 0]
PInf == [k |-> "pinf", n |-> 0, d |-> 1, e |-> 0]
NInf == [k |-> "ninf", n |-> 0, d |-> 1, e |-> 0]

\* The finite value (n / d) * 10^e, d # 0, in lowest terms.
Fin(n, d, e) ==
    IF n = 0 THEN [k |-> "fin", n |-> 0, d |-> 1, e |-> 0]
    ELSE LET g == GCD(Abs(n), Abs(d))
         IN  [k |-> "fin", n |-> Sgn(d) * (n \div g), d |-> Abs(d) \div g, e |-> e]

Num(n) == Fin(n, 1, 0)

IsNan(x) == x.k = "nan"

IsFinite(x) == x.k = "fin"

Sign(x) == IF x.k = "pinf" THEN 1 ELSE IF x.k = "ninf" THEN -1 ELSE Sgn(x.n)

Neg(x) ==
    CASE x.k = "nan"  -> NaN
      [] x.k = "pinf" -> NInf
      [] x.k = "ninf" -> PInf
      [] OTHER        -> [x EXCEPT !.n = -x.n]

\* a < b for finite a, b > 0.  The exponents are brought together one decade
\* at a time, so that no product leaves the integers TLC has.
RECURSIVE PosLess(_, _)
PosLess(a, b) ==
    IF a.e = b.e THEN a.n * b.d < b.n * a.d
    ELSE IF a.e > b.e
         THEN IF a.n * b.d >= b.n * a.d THEN FALSE
              ELSE PosLess([a EXCEPT !.n = 10 * a.n, !.e = a.e - 1], b)
         ELSE IF a.n * b.d <= b.n * a.d THEN TRUE
              ELSE PosLess(a, [b EXCEPT !.n = 10 * b.n, !.e = b.e - 1])

\* a < b (IEEE: false when either is nan).
Lt(a, b) ==
    CASE IsNan(a) \/ IsNan(b)           -> FALSE
      [] a.k = "pinf" \/ b.k = "ninf"   -> FALSE
      [] a.k = "ninf" \/ b.k = "pinf"   -> TRUE
      [] Sign(a) # Sign(b)              -> Sign(a) < Sign(b)
      [] Sign(a) = 0                    -> FALSE
      [] Sign(a) > 0                    -> PosLess(a, b)
      [] OTHER                          -> PosLess(Neg(b), Neg(a))

Eq(a, b) == ~IsNan(a) /\ ~IsNan(b) /\ ~Lt(a, b) /\ ~Lt(b, a)

Le(a, b) == Lt(a, b) \/ Eq(a, b)

\* A finite value with its exponent lowered to e (e <= x.e), not reduced.
Lowered(x, e) == [x EXCEPT !.n = x.n * Pow10(x.e - e), !.e = e]

Add(a, b) ==
    CASE IsNan(a) \/ IsNan(b)                            -> NaN
      [] a.k = "pinf" /\ b.k = "ninf"                    -> NaN
      [] a.k = "ninf" /\ b.k = "pinf"                    -> NaN
      [] a.k \in {"pinf", "ninf"}                        -> a
      [] b.k \in {"pinf", "ninf"}                        -> b
      [] a.n = 0                                         -> b
      [] b.n = 0                                         -> a
      [] OTHER ->
           LET e  == Min2(a.e, b.e)
               x  == Lowered(a, e)
               y  == Lowered(b, e)
           IN  Fin(x.n * y.d + y.n * x.d, x.d * y.d, e)

Sub(a, b) == Add(a, Neg(b))

Mul(a, b) ==
    CASE IsNan(a) \/ IsNan(b)                     -> NaN
      [] ~IsFinite(a) \/ ~IsFinite(b) ->
           IF Sign(a) = 0 \/ Sign(b) = 0 THEN NaN
           ELSE IF Sign(a) = Sign(b) THEN PInf ELSE NInf
      [] a.n = 0 \/ b.n = 0                       -> Num(0)
      [] OTHER ->
           LET g1 == GCD(Abs(a.n), b.d)
               g2 == GCD(Abs(b.n), a.d)
           IN  Fin((a.n \div g1) * (b.n \div g2),
                   (a.d \div g2) * (b.d \div g1), a.e + b.e)

\* a / b on tensors: a finite value over zero is an infinity, 0/0 is nan.
Div(a, b) ==
    CASE IsNan(a) \/ IsNan(b)                     -> NaN
      [] ~IsFinite(a) /\ ~IsFinite(b)             -> NaN
      [] ~IsFinite(b)                             -> Num(0)
      [] b.n = 0 ->
           IF Sign(a) = 0 THEN NaN ELSE IF Sign(a) > 0 THEN PInf ELSE NInf
      [] ~IsFinite(a) ->
           IF Sign(a) = Sign(b) THEN PInf ELSE NInf
      [] OTHER -> Mul(a, Fin(b.d, b.n, -b.e))

\* Python's builtin max(a, b): a, unless b > a.
PyMax(a, b) == IF Lt(a, b) THEN b ELSE a

----------------------------------------------------------------------------
(* loss_value: the categorical value codec and its cross-entropy. *)

\* A finite value with exponent 0, not reduced.
Plain(x) ==
    IF x.e >= 0 THEN [x EXCEPT !.n = x.n * Pow10(x.e), !.e = 0]
    ELSE [x EXCEPT !.d = x.d * Pow10(-x.e), !.e = 0]

\* The integer square root; exact on the perfect squares the model feeds it.
ISqrt(m) == CHOOSE r \in 0..m : r * r <= m /\ m < (r + 1) * (r + 1)

\* np.sqrt: nan on a negative number.
Sqrt(x) ==
    CASE IsNan(x) \/ x.k = "ninf" -> NaN
      [] x.k = "pinf"             -> PInf
      [] x.n < 0                  -> NaN
      [] OTHER -> LET p == Plain(x) IN Fin(ISqrt(p.n), ISqrt(p.d), 0)

\* What .astype(int) can make of a value that is no number: the cast is
\* undefined, and gives the most negative integer, zero or the largest one.
NanAsInt == {-(2^30), 0, 2^30}

\* The outcomes of the cast within one call of loss_value: it only matters
\* when a target is negative (its square root nan).
NanCasts(target_value_batch) ==
    IF \E j \in DOMAIN target_value_batch : Lt(target_value_batch[j], Num(0))
    THEN NanAsInt ELSE {0}

\* np.floor(x).astype(int); nan_int is what the cast makes of nan.
FloorAsInt(x, nan_int) ==
    IF IsFinite(x) THEN LET p == Plain(x) IN p.n \div p.d ELSE nan_int

\* np.clip(x, a_min, a_max) = minimum(maximum(x, a_min), a_max)
NpClip(x, a_min, a_max) == Min2(Max2(x, a_min), a_max)

\* The row loss_value builds for one value target, with the two weights the
\* wrong way round.
TargetsSwapped(v, size, nan_int) ==
    LET sqrt_value  == Sqrt(v)
        floor_value == NpClip(FloorAsInt(sqrt_value, nan_int), 0, size - 2)
        rest        == Sub(sqrt_value, Num(floor_value))
        zeros       == [b \in 0..(size - 1) |-> Num(0)]
        first       == [zeros EXCEPT ![floor_value] = rest]
    IN  [first EXCEPT ![floor_value + 1] = Sub(Num(1), rest)]

\* The row of `targets` that loss_value builds for one value target v
\* (lines 120-131); bins are 0..size-1.
Targets(v, size, nan_int) ==
    LET sqrt_value  == Sqrt(v)
        floor_value == NpClip(FloorAsInt(sqrt_value, nan_int), 0, size - 2)
        rest        == Sub(sqrt_value, Num(floor_value))
        zeros       == [b \in 0..(size - 1) |-> Num(0)]
        first       == [zeros EXCEPT ![floor_value] = Sub(Num(1), rest)]
    IN  [first EXCEPT ![floor_value + 1] = rest]

\* sum over bins lo..hi of f[b]
RECURSIVE SumBins(_, _, _)
SumBins(f, lo, hi) == IF lo > hi THEN Num(0) ELSE Add(f[lo], SumBins(f, lo + 1, hi))

\* sum of a sequence
RECURSIVE SumSeq(_)
SumSeq(s) == IF s = <<>> THEN Num(0) ELSE Add(Head(s), SumSeq(Tail(s)))

\* tf.math.reduce_mean of a vector: nan (0/0) on an empty one.
ReduceMean(s) == Div(SumSeq(s), Num(Len(s)))

\* tf.nn.softmax_cross_entropy_with_logits on one row: -sum labels * log_softmax.
\* A prediction is given by nll = -log_softmax(logits), one value per bin.
CrossEntropy(labels, nll, size) ==
    SumBins([b \in 0..(size - 1) |-> Mul(labels[b], nll[b])], 0, size - 1)

\* val of loss_value (line 133): one cross-entropy per row.
loss_value(target_value_batch, value_batch, size, nan_int) ==
    [j \in 1..Len(target_value_batch) |->
        CrossEntropy(Targets(target_value_batch[j], size, nan_int), value_batch[j], size)]

\* loss_value stops in the debugger (lines 135-137) instead of returning.
EntersDebugger(val) == IsNan(ReduceMean(val))

\* The value targets of the codec runs: squares of r/d, and a negative one.
TargetValues ==
    {Fin(r * r, d * d, 0) : r \in 0..(MaxRoot * MaxDen), d \in 1..MaxDen} \cup {Num(-1)}

InitCodec ==
    /\ cpc = "input"
    /\ target_value \in {v \in TargetValues : Le(v, Num(MaxRoot * MaxRoot))}
    /\ value_support_size \in 2..MaxSupport
    /\ targets = <<>>
    /\ pc = "idle" /\ epochs = 0 /\ iter = 0 /\ steps0 = 0 /\ training_steps = 0
    /\ optimizer_steps = 0 /\ log = <<>>
    /\ lpc = "idle" /\ K = 0 /\ k = 0 /\ loss = Num(0) /\ losses = <<>>
    /\ raw_loss = Num(0) /\ rep = <<>> /\ hist = <<>> /\ warned = FALSE
    /\ printed = <<>> /\ fault = "none"

\* loss_value builds the row for the target.
Encode ==
    /\ cpc = "input"
    /\ \E nan_int \in NanCasts(<<target_value>>) :
         targets' = Targets(target_value, value_support_size, nan_int)
    /\ cpc' = "encoded"
    /\ UNCHANGED <<target_value, value_support_size>>
    /\ UNCHANGED <<trainVars, training_steps, optimizer_steps, lossVars>>

NextCodec == Encode

SpecCodec == InitCodec /\ [][NextCodec]_vars

\* Decoding by expectation over the bin indices: sum of b * row[b].
Expectation(row, size) ==
    SumBins([b \in 0..(size - 1) |-> Mul(Num(b), row[b])], 0, size - 1)

\* floor(sqrt(v)) clipped, for a value target v >= 0
ClippedFloor(v, size) == NpClip(FloorAsInt(Sqrt(v), 0), 0, size - 2)

Encoded == cpc = "encoded" /\ Le(Num(0), target_value)

\* C5 (as stated): for every support_size >= 2 and every v >= 0, also beyond
\* (support_size-1)^2, the row is a categorical distribution: every entry in
\* [0, 1], the entries sum to 1, and the non-zero entries are exactly those at
\* f and f+1 with weights 1-rest and rest (one entry when rest = 0).
C5_RowIsDistribution ==
    Encoded =>
      LET size == value_support_size
          f    == ClippedFloor(target_value, size)
          rest == Sub(Sqrt(target_value), Num(f))
      IN  /\ \A b \in 0..(size - 1) : Le(Num(0), targets[b]) /\ Le(targets[b], Num(1))
          /\ Eq(SumBins(targets, 0, size - 1), Num(1))
          /\ Eq(targets[f], Sub(Num(1), rest)) /\ Eq(targets[f + 1], rest)
          /\ \A b \in 0..(size - 1) : b \notin {f, f + 1} => Eq(targets[b], Num(0))
          /\ (Eq(rest, Num(0)) => Eq(targets[f + 1], Num(0)))

InCodecRange ==
    Encoded /\ Le(target_value, Num((value_support_size - 2) * (value_support_size - 2)))

\* C6 (as stated): for every v in [0, (support_size-2)^2] the expectation over
\* the bin indices of the row encoded for v is v.
C6_ExpectationIsValue ==
    InCodecRange => Eq(Expectation(targets, value_support_size), target_value)

\* C6 (amended): for every v in [0, (support_size-2)^2] the expectation over the
\* bin indices of the row encoded for v is sqrt(v); its square is v.
C6_ExpectationIsRoot ==
    InCodecRange =>
      LET m == Expectation(targets, value_support_size)
      IN  Eq(m, Sqrt(target_value)) /\ Eq(Mul(m, m), target_value)

\* C6 witness: a target with a fractional root, strictly between two bins,
\* has been encoded.
C6_Witness ==
    /\ InCodecRange
    /\ Lt(Num(1), target_value)
    /\ ~Eq(targets[ClippedFloor(target_value, value_support_size)], Num(1))
    /\ ~Eq(targets[ClippedFloor(target_value, value_support_size)], Num(0))

----------------------------------------------------------------------------
(* update_weights: the end of the loss closure and the optimizer step. *)

ThresholdMantissa == 99999999
ThresholdExp == 18

\* threshold = 9.9999999e25
threshold == Fin(ThresholdMantissa, 1, ThresholdExp)

\* The threshold line with min in the place of max.
ClippedByMin(l) ==
    Mul(l, Div(threshold, IF Lt(threshold, l) THEN threshold ELSE l))

\* loss * (threshold / max(loss, threshold))
Clipped(l) == Mul(l, Div(threshold, PyMax(l, threshold)))

\* Lines 104-112: the threshold, the nan check with its warning, the return.
LossPost ==
    /\ lpc = "unroll" /\ k = K
    /\ raw_loss' = loss
    /\ loss' = Clipped(loss)
    /\ warned' = IsNan(loss')
    /\ printed' = IF IsNan(loss') THEN losses ELSE printed
    /\ lpc' = "minimize"
    /\ UNCHANGED <<K, k, losses, rep, hist, fault>>
    /\ UNCHANGED <<trainVars, training_steps, optimizer_steps, codecVars>>

\* A completed call of a collaborator or of update_weights, as log keeps it.
Call(op, key) == [op |-> op, key |-> key]

\* Lines 114-115 with the counter going up by two.
ApplyStepTwice ==
    /\ lpc = "minimize"
    /\ optimizer_steps' = optimizer_steps + 1
    /\ training_steps' = training_steps + 2
    /\ lpc' = "returned"
    /\ log' = Append(log, Call("update_weights", 0))
    /\ UNCHANGED <<K, k, loss, losses, raw_loss, rep, hist, warned, printed, fault>>
    /\ UNCHANGED <<pc, epochs, iter, steps0, codecVars>>

\* Lines 114-115: with the loss returned, minimize applies one gradient step,
\* the step counter goes up by one and update_weights returns.
ApplyStep ==
    /\ lpc = "minimize"
    /\ optimizer_steps' = optimizer_steps + 1
    /\ training_steps' = training_steps + 1
    /\ lpc' = "returned"
    /\ log' = Append(log, Call("update_weights", 0))
    /\ UNCHANGED <<K, k, loss, losses, raw_loss, rep, hist, warned, printed, fault>>
    /\ UNCHANGED <<pc, epochs, iter, steps0, codecVars>>

\* The raw total losses of the threshold runs.
RawLosses ==
    {Fin(n, d, e) : n \in (-MaxMantissa)..MaxMantissa, d \in 1..2,
                    e \in {0, ThresholdExp + 7, ThresholdExp + 8, ThresholdExp + 9}}
    \cup {Fin(ThresholdMantissa + n, 1, ThresholdExp) : n \in {-1, 0, 1}}
    \cup {NaN, PInf, NInf}

\* The closure has run its unroll loop and holds some raw total loss.
InitClip ==
    /\ lpc = "unroll" /\ K = 0 /\ k = 0
    /\ loss \in RawLosses
    /\ losses = <<loss, loss>>
    /\ raw_loss = Num(0) /\ rep = <<1>> /\ hist = <<>> /\ warned = FALSE
    /\ printed = <<>> /\ fault = "none"
    /\ pc = "idle" /\ epochs = 0 /\ iter = 0 /\ steps0 = 0 /\ training_steps = 0
    /\ optimizer_steps = 0 /\ log = <<>>
    /\ cpc = "idle" /\ target_value = Num(0) /\ value_support_size = 2
    /\ targets = <<>>

NextClip == LossPost \/ ApplyStep

SpecClip == InitClip /\ [][NextClip]_vars

ThresholdApplied == lpc \in {"minimize", "returned"} /\ IsFinite(raw_loss)

\* C4 (as stated): for any raw total loss L, also 0 and negative L, the loss
\* after the threshold line satisfies 0 <= clipped <= threshold, and
\* clipped = L whenever L < threshold.
C4_ClippedInRange ==
    ThresholdApplied =>
      /\ Le(Num(0), loss) /\ Le(loss, threshold)
      /\ (Lt(raw_loss, threshold) => Eq(loss, raw_loss))

\* C4 (amended): for any finite raw total loss L, clipped <= threshold,
\* clipped = L whenever L < threshold (a negative L stays negative),
\* clipped = threshold whenever L >= threshold, and 0 <= clipped when L >= 0.
C4_ClippedAbove ==
    ThresholdApplied =>
      /\ Le(loss, threshold)
      /\ (Lt(raw_loss, threshold) => Eq(loss, raw_loss))
      /\ (Le(threshold, raw_loss) => Eq(loss, threshold))
      /\ (Le(Num(0), raw_loss) => Le(Num(0), loss))

\* C4 witness: a raw loss above the threshold has been cut down to it.
C4_Witness ==
    ThresholdApplied /\ Lt(threshold, raw_loss) /\ Eq(loss, threshold)

----------------------------------------------------------------------------
(* train_network. *)

\* Line 20: replay_buffer.sample_batch returns a batch, or fails; with the
\* batch, update_weights is called (line 21).
sample_batch ==
    /\ pc = "loop" /\ iter < epochs
    /\ \/ /\ log' = Append(log, Call("sample_batch", 0))
          /\ pc' = "update"
          /\ lpc' = "start"
       \/ /\ pc' = "aborted"
          /\ UNCHANGED <<log, lpc>>
    /\ UNCHANGED <<epochs, iter, steps0, training_steps, optimizer_steps>>
    /\ UNCHANGED <<K, k, loss, losses, raw_loss, rep, hist, warned, printed, fault>>
    /\ UNCHANGED codecVars

\* The raw total losses the unroll of a call in the loop may end with.
LoopLosses == {Num(1), Num(-1), NaN, PInf}

\* Lines 35-102 inside the training loop, by their outcome alone: the unroll
\* ends with some raw total loss, or loss_value stops in the debugger, or an
\* exception leaves update_weights and train_network.  (InitialStep and
\* RecurrentStep below are these lines step by step.)
Unrolled ==
    /\ pc = "update" /\ lpc = "start"
    /\ \/ /\ loss' \in LoopLosses
          /\ losses' = <<loss', loss'>>
          /\ lpc' = "unroll"
          /\ UNCHANGED <<pc, fault>>
       \/ /\ lpc' = "pdb" /\ fault' = "pdb"
          /\ UNCHANGED <<pc, loss, losses>>
       \/ /\ lpc' = "raised" /\ fault' = "shape"
          /\ pc' = "aborted"
          /\ UNCHANGED <<loss, losses>>
    /\ K' = 0 /\ k' = 0
    /\ UNCHANGED <<raw_loss, rep, hist, warned, printed>>
    /\ UNCHANGED <<epochs, iter, steps0, training_steps, optimizer_steps, log>>
    /\ UNCHANGED codecVars

\* save_network keyed by the loop index.
save_network_by_index ==
    /\ pc = "update" /\ lpc = "returned"
    /\ log' = Append(log, Call("save_network", iter))
    /\ iter' = iter + 1
    /\ pc' = "loop"
    /\ lpc' = "idle"
    /\ UNCHANGED <<epochs, steps0, training_steps, optimizer_steps>>
    /\ UNCHANGED <<K, k, loss, losses, raw_loss, rep, hist, warned, printed, fault>>
    /\ UNCHANGED codecVars

\* Line 22: update_weights has returned;
\* storage.save_network(network.training_steps, network); the iteration ends.
save_network ==
    /\ pc = "update" /\ lpc = "returned"
    /\ log' = Append(log, Call("save_network", training_steps))
    /\ iter' = iter + 1
    /\ pc' = "loop"
    /\ lpc' = "idle"
    /\ UNCHANGED <<epochs, steps0, training_steps, optimizer_steps>>
    /\ UNCHANGED <<K, k, loss, losses, raw_loss, rep, hist, warned, printed, fault>>
    /\ UNCHANGED codecVars

\* The flush moved under `if epochs:`.
save_network_to_disk_if_epochs ==
    /\ pc = "loop" /\ iter = epochs
    /\ log' = IF epochs # 0 THEN Append(log, Call("save_network_to_disk", 0)) ELSE log
    /\ pc' = "done"
    /\ UNCHANGED <<epochs, iter, steps0, training_steps, optimizer_steps>>
    /\ UNCHANGED <<lossVars, codecVars>>

\* Lines 23-26: the loop is over; storage.save_network_to_disk(network).
save_network_to_disk ==
    /\ pc = "loop" /\ iter = epochs
    /\ log' = Append(log, Call("save_network_to_disk", 0))
    /\ pc' = "done"
    /\ UNCHANGED <<epochs, iter, steps0, training_steps, optimizer_steps>>
    /\ UNCHANGED <<lossVars, codecVars>>

\* train_network has been called (lines 14-16).
Init ==
    /\ pc = "loop"
    /\ epochs \in 0..MaxEpochs
    /\ iter = 0
    /\ steps0 \in 0..MaxInitSteps
    /\ training_steps = steps0
    /\ optimizer_steps = 0
    /\ log = <<>>
    /\ lpc = "idle" /\ K = 0 /\ k = 0 /\ loss = Num(0) /\ losses = <<>>
    /\ raw_loss = Num(0) /\ rep = <<>> /\ hist = <<>> /\ warned = FALSE
    /\ printed = <<>> /\ fault = "none"
    /\ cpc = "idle" /\ target_value = Num(0) /\ value_support_size = 2
    /\ targets = <<>>

Next ==
    \/ sample_batch
    \/ Unrolled
    \/ LossPost
    \/ ApplyStep
    \/ save_network
    \/ save_network_to_disk

Spec == Init /\ [][Next]_vars

Calls(op) == {j \in 1..Len(log) : log[j].op = op}

\* C1: after N calls of update_weights that returned, training_steps is its
\* value before the first call plus N, and the optimizer has applied N steps:
\* one step and one increment per call, and no other change of the counter.
C1_StepCounter ==
    /\ training_steps = steps0 + Cardinality(Calls("update_weights"))
    /\ optimizer_steps = Cardinality(Calls("update_weights"))

\* C1 witness: two calls have returned.
C1_Witness ==
    /\ Cardinality(Calls("update_weights")) = 2
    /\ training_steps = steps0 + 2
    /\ lpc = "returned"

\* C2: while no call fails, the calls of iteration i are sample_batch,
\* update_weights, save_network in this order, once each, iteration i+1 after
\* iteration i, and save_network of iteration i gets the key steps0 + i.
C2_IterationOrder ==
    /\ Len(log) <= 3 * epochs + 1
    /\ \A j \in 1..Len(log) :
         j <= 3 * epochs =>
           /\ (j % 3 = 1 => log[j] = Call("sample_batch", 0))
           /\ (j % 3 = 2 => log[j] = Call("update_weights", 0))
           /\ (j % 3 = 0 => log[j] = Call("save_network", steps0 + (j \div 3)))
    /\ (pc = "done" => Len(log) = 3 * epochs + 1)
    /\ (pc \in {"loop", "done"} => Len(log) >= 3 * iter)

\* C2 witness: a run of at least two iterations is over.
C2_Witness == pc = "done" /\ epochs >= 2 /\ iter = epochs

\* C3: save_network_to_disk is called exactly once in a run that completes,
\* after the last save_network, and never before; with epochs = 0 it is the
\* only call.
C3_FlushOnce ==
    /\ Cardinality(Calls("save_network_to_disk")) <= 1
    /\ (pc # "done" => Calls("save_network_to_disk") = {})
    /\ (pc = "done" =>
          /\ Calls("save_network_to_disk") = {Len(log)}
          /\ Cardinality(Calls("save_network")) = epochs
          /\ (epochs = 0 => log = <<Call("save_network_to_disk", 0)>>))

\* C3 witness: a run with no iteration is over, the flush done.
C3_Witness == pc = "done" /\ epochs = 0 /\ Len(log) = 1

----------------------------------------------------------------------------
(* The loss closure of update_weights, step by step (lines 34-102). *)

Samples == [j \in 1..BatchSize |-> j]

\* tf.boolean_mask along the first axis (also the list filters of lines 44, 81)
RECURSIVE boolean_mask(_, _)
boolean_mask(tensor, mask) ==
    IF tensor = <<>> THEN <<>>
    ELSE (IF Head(mask) THEN <<Head(tensor)>> ELSE <<>>)
         \o boolean_mask(Tail(tensor), Tail(mask))

\* Trick function to scale the gradient: the forward value of
\* (1. - scale) * tf.stop_gradient(tensor) + scale * tensor
scale_gradient(tensor, scale) ==
    Add(Mul(Sub(Num(1), scale), tensor), Mul(scale, tensor))

\* keras MSE of two vectors: the mean of the squared differences.
MSE(y_true, y_pred) ==
    ReduceMean([j \in 1..Len(y_true) |->
                   Mul(Sub(y_pred[j], y_true[j]), Sub(y_pred[j], y_true[j]))])

\* Inputs of the unrolled loss: the batch's targets and what the network
\* predicts.  A value prediction is a row nll = -log_softmax(logits).
LossTargetValues == {Num(-1), Num(0), Num(4)}
RewardTargets == {Num(1)}
RewardPredictions == {Num(0)}
Predictions ==
    {[b \in 0..(SupportSize - 1) |-> Num(1)],
     [b \in 0..(SupportSize - 1) |-> IF b = 0 THEN Num(0) ELSE Num(2)]}
\* The cross-entropy of one row of policy logits against its policy target.
PolicyXent == {Num(1)}

\* softmax_cross_entropy_with_logits on zero rows with labels of shape (0,):
\* the mean of nothing (nan), or the op rejects the shapes.
EmptyXentOutcomes == {"nan", "raised"}

\* One entry of hist: the samples whose targets (tgt) and whose predictions
\* (pred) went into the step's loss, the three terms, the rows the policy
\* mask selected, and the step's combined loss (term).  hist[1] is the initial
\* step, hist[1 + j] the recurrent step j.
StepRecord(tgt, pred, value, reward, policy, rows, term) ==
    [tgt |-> tgt, pred |-> pred, value |-> value, reward |-> reward,
     policy |-> policy, policy_rows |-> rows, term |-> term]

\* update_weights stops without returning.
Stops(how, why) ==
    /\ lpc' = how
    /\ fault' = why
    /\ pc' = IF pc = "update" /\ how = "raised" THEN "aborted" ELSE pc
    /\ UNCHANGED <<k, loss, losses, rep, hist>>

\* Lines 35-52: the initial step, from the real observation.
InitialStep ==
    /\ lpc = "start" /\ pc = "idle"
    /\ \E target_value_batch \in [1..BatchSize -> LossTargetValues],
          mask_policy \in [1..BatchSize -> BOOLEAN],
          value_batch \in [1..BatchSize -> Predictions] :
       \E nan_int \in NanCasts(target_value_batch) :
         LET val   == loss_value(target_value_batch, value_batch, SupportSize, nan_int)
             value == Add(Num(0), ReduceMean(val))
             rows  == Len(boolean_mask(Samples, mask_policy))
         IN  IF EntersDebugger(val) THEN Stops("pdb", "pdb")
             ELSE IF rows = 0
             THEN \E outcome \in EmptyXentOutcomes :
                    IF outcome = "raised" THEN Stops("raised", "empty_xent")
                    ELSE /\ loss' = Add(value, NaN)
                         /\ losses' = <<value, loss'>>
                         /\ hist' = <<StepRecord(Samples, Samples, value, Num(0),
                                                 NaN, 0, loss')>>
                         /\ rep' = Samples
                         /\ k' = 0
                         /\ lpc' = "unroll"
                         /\ UNCHANGED <<pc, fault>>
             ELSE \E xent \in [1..rows -> PolicyXent] :
                    /\ loss' = Add(value, ReduceMean(xent))
                    /\ losses' = <<value, loss'>>
                    /\ hist' = <<StepRecord(Samples, Samples, value, Num(0),
                                            ReduceMean(xent), rows, loss')>>
                    /\ rep' = Samples
                    /\ k' = 0
                    /\ lpc' = "unroll"
                    /\ UNCHANGED <<pc, fault>>
    /\ UNCHANGED <<K, raw_loss, warned, printed>>
    /\ UNCHANGED <<epochs, iter, steps0, training_steps, optimizer_steps, log>>
    /\ UNCHANGED codecVars

\* Lines 54-102: one recurrent step, from the actions and the previous hidden
\* state.  The step's rows: the representation filtered by dynamic_mask on one
\* side, the targets filtered by mask on the other.
RecurrentStep ==
    /\ lpc = "unroll" /\ k < K
    /\ \E mask \in [1..BatchSize -> BOOLEAN],
          dynamic_mask \in [1..Len(rep) -> BOOLEAN],
          n_actions \in 0..BatchSize :
         LET representation_batch == boolean_mask(rep, dynamic_mask)
             tgt == boolean_mask(Samples, mask)
             n   == Len(tgt)
         IN  IF n_actions # Len(representation_batch)
             THEN Stops("raised", "shape")          \* tf.concat, line 76
             ELSE IF n # Len(representation_batch)
             THEN Stops("raised", "shape")          \* tf.boolean_mask, line 84
             ELSE
               \E target_value_batch \in [1..n -> LossTargetValues],
                  target_reward_batch \in [1..n -> RewardTargets],
                  mask_policy \in [1..n -> BOOLEAN],
                  value_batch \in [1..n -> Predictions],
                  reward_batch \in [1..n -> RewardPredictions] :
               \E nan_int \in NanCasts(target_value_batch) :
                 LET val    == loss_value(target_value_batch, value_batch,
                                          SupportSize, nan_int)
                     value  == ReduceMean(val)
                     reward == MSE(target_reward_batch, reward_batch)
                     rows   == Len(boolean_mask(tgt, mask_policy))
                     gradient_scale == Fin(1, K, 0)
                 IN  IF EntersDebugger(val) THEN Stops("pdb", "pdb")
                     ELSE IF rows = 0
                     THEN \E outcome \in EmptyXentOutcomes :
                            IF outcome = "raised" THEN Stops("raised", "empty_xent")
                            ELSE LET l    == Add(Add(value, reward), NaN)
                                     grad == scale_gradient(l, gradient_scale)
                                 IN  /\ loss' = Add(loss, grad)
                                     /\ losses' = Append(losses, grad)
                                     /\ hist' = Append(hist,
                                          StepRecord(tgt, representation_batch,
                                                     value, reward, NaN, 0, l))
                                     /\ rep' = representation_batch
                                     /\ k' = k + 1
                                     /\ UNCHANGED <<lpc, pc, fault>>
                     ELSE \E xent \in [1..rows -> PolicyXent] :
                            LET l    == Add(Add(value, reward), ReduceMean(xent))
                                grad == scale_gradient(l, gradient_scale)
                            IN  /\ loss' = Add(loss, grad)
                                /\ losses' = Append(losses, grad)
                                /\ hist' = Append(hist,
                                     StepRecord(tgt, representation_batch, value,
                                                reward, ReduceMean(xent), rows, l))
                                /\ rep' = representation_batch
                                /\ k' = k + 1
                                /\ UNCHANGED <<lpc, pc, fault>>
    /\ UNCHANGED <<K, raw_loss, warned, printed>>
    /\ UNCHANGED <<epochs, iter, steps0, training_steps, optimizer_steps, log>>
    /\ UNCHANGED codecVars

\* update_weights has been called with a batch of K unroll steps.
InitLoss ==
    /\ lpc = "start"
    /\ K \in 0..MaxUnroll
    /\ k = 0 /\ loss = Num(0) /\ losses = <<>> /\ raw_loss = Num(0)
    /\ rep = <<>> /\ hist = <<>> /\ warned = FALSE /\ printed = <<>>
    /\ fault = "none"
    /\ pc = "idle" /\ epochs = 0 /\ iter = 0 /\ steps0 = 0 /\ training_steps = 0
    /\ optimizer_steps = 0 /\ log = <<>>
    /\ cpc = "idle" /\ target_value = Num(0) /\ value_support_size = SupportSize
    /\ targets = <<>>

NextLoss == InitialStep \/ RecurrentStep \/ LossPost \/ ApplyStep

SpecLoss == InitLoss /\ [][NextLoss]_vars

Range(seq) == {seq[j] : j \in 1..Len(seq)}

\* The same value: equal numbers, or both nan.
Same(a, b) == (IsNan(a) /\ IsNan(b)) \/ Eq(a, b)

LossReturned == lpc \in {"minimize", "returned"}

\* C7 (as stated): a sample whose mask is False at every recurrent step enters
\* no recurrent-step loss, neither by its targets nor by its predictions,
\* whatever dynamic_mask holds; and at each step the targets selected by mask
\* and the predictions of the dynamic_mask-filtered representation are those
\* of the same samples in the same order.
C7_MaskingConsistency ==
    /\ \A s \in 2..Len(hist) : hist[s].tgt = hist[s].pred
    /\ \A i \in 1..BatchSize :
         (\A s \in 2..Len(hist) : i \notin Range(hist[s].tgt))
            => (\A s \in 2..Len(hist) : i \notin Range(hist[s].pred))

\* C8 (as stated): the trace of a loss evaluation has 2 + K entries: the
\* initial value term, the initial policy term, then the combined term of each
\* unroll step in order; with K = 0 the total is the initial value term plus
\* the initial policy term.
C8_LossTrace ==
    LossReturned =>
      /\ Len(losses) = 2 + K
      /\ Same(losses[1], hist[1].value)
      /\ Same(losses[2], hist[1].policy)
      /\ \A j \in 1..K : Same(losses[2 + j], hist[1 + j].term)
      /\ (K = 0 => Same(raw_loss, Add(hist[1].value, hist[1].policy)))

\* C9 (as stated): when the policy mask of a step selects no row, the policy
\* cross-entropy adds exactly 0 to the step's loss, the evaluation does not
\* fail, and the total stays finite when every other term is finite.
C9_EmptyPolicySubset ==
    /\ fault # "empty_xent"
    /\ \A s \in 1..Len(hist) :
         hist[s].policy_rows = 0 =>
           /\ Eq(hist[s].policy, Num(0))
           /\ Same(hist[s].term, Add(hist[s].value, hist[s].reward))
    /\ (/\ LossReturned
        /\ \A s \in 1..Len(hist) :
             /\ IsFinite(hist[s].value) /\ IsFinite(hist[s].reward)
             /\ (hist[s].policy_rows # 0 => IsFinite(hist[s].policy)))
       => IsFinite(raw_loss) /\ IsFinite(loss)

\* C10 (as stated): when the total loss after the threshold is not finite,
\* also when a value-loss term is itself nan, the evaluation prints the warning
\* with the whole trace and returns the loss; update_weights neither raises nor
\* halts, one optimizer step is applied and training_steps goes up by one.
C10_NonFiniteLoss ==
    /\ fault # "pdb"
    /\ (LossReturned /\ ~IsFinite(loss)) => (warned /\ printed = losses)
    /\ (lpc = "returned" /\ ~IsFinite(loss))
          => (optimizer_steps = 1 /\ training_steps = steps0 + 1)

====
